---- MODULE Spec2Model ----
(***************************************************************************)
(* A model of three parts of mp4ff:                                        *)
(*   - mp4.AudioSampleEntryBox  (src/mp4/audiosamplentry.go)               *)
(*   - mp4.StssBox              (src/unnamed/part_000)                     *)
(*   - avc Annex-B conversion   (exercised by src/avc/annexb_test.go)      *)
(* Boxes live in a heap; a Go pointer is an index into the heap, so that   *)
(* identity (the same *SinfBox) and equality of contents are distinct.     *)
(***************************************************************************)
EXTENDS Integers, Sequences, FiniteSets, TLC

VARIABLES
  heap,        \* allocated child boxes; a pointer is an index into heap
  a,           \* the AudioSampleEntryBox
  pre,         \* the AudioSampleEntryBox as it was when the last call began
  call,        \* the last call on a: [op, arg, box, err]
  hdr,         \* boxHeader handed to a decoder: [name, size]
  startPos,    \* startPos handed to a decoder
  kids,        \* sizes of the children the encoder of the input wrote
  stream,      \* bytes the io.Reader still holds behind the header
  data,        \* the box body readBoxBody returned
  rest,        \* bytes restReader still holds (DecodeAudioSampleEntry)
  pos,         \* running position of DecodeAudioSampleEntry
  dpc,         \* position of the decode/encode run
  derr,        \* error of the decode run ("" when none)
  out,         \* bytes written by Encode / by the Annex-B converter
  b,           \* the StssBox
  b0,          \* the StssBox as it was when IsSyncSample began
  sampleNr,    \* argument of IsSyncSample
  i, j,        \* binary search bounds of IsSyncSample
  spc,         \* position of IsSyncSample
  isSync,      \* result of IsSyncSample
  iters,       \* loop iterations of the running IsSyncSample
  units,       \* NAL units the Annex-B buffer was framed from
  si,          \* scan index of ExtractNalusFromByteStream
  currNaluStart,
  nalus        \* NAL units found so far

vars == <<heap, a, pre, call, hdr, startPos, kids, stream, data, rest, pos, dpc, derr, out,
          b, b0, sampleNr, i, j, spc, isSync, iters,
          units, si, currNaluStart, nalus>>

audioVars == <<heap, a, pre, call>>
codecVars == <<hdr, startPos, kids, stream, data, rest, pos, dpc, derr, out>>
stssVars  == <<b, b0, sampleNr, i, j, spc, isSync, iters>>
annexVars == <<units, si, currNaluStart, nalus>>

Nil == 0

-----------------------------------------------------------------------------
(* Byte strings and big-endian fixed-width integers.                       *)

RECURSIVE Zeros(_)
Zeros(n) == IF n <= 0 THEN <<>> ELSE <<0>> \o Zeros(n - 1)

RECURSIVE Fill(_, _)
Fill(n, v) == IF n <= 0 THEN <<>> ELSE <<v>> \o Fill(n - 1, v)

Take(s, n) == SubSeq(s, 1, IF n < Len(s) THEN n ELSE Len(s))
Drop(s, n) == SubSeq(s, n + 1, Len(s))

RECURSIVE Concat(_)
Concat(ss) == IF ss = <<>> THEN <<>> ELSE Head(ss) \o Concat(Tail(ss))

RECURSIVE SumSeq(_)
SumSeq(s) == IF s = <<>> THEN 0 ELSE Head(s) + SumSeq(Tail(s))

Range(s) == {s[k] : k \in DOMAIN s}

PutUint16(x) == <<(x \div 256) % 256, x % 256>>
\* binary.BigEndian.Uint16 of the bytes at 0-based offset off
Uint16(s, off) == s[off + 1] * 256 + s[off + 2]
\* A uint32 is kept as its two 16-bit halves <<hi, lo>>, so that every
\* 32-bit value, also one above 2^31, is represented exactly.
W(n) == <<n \div 65536, n % 65536>>
PutUint32(w) == PutUint16(w[1]) \o PutUint16(w[2])
Uint32(s, off) == <<Uint16(s, off), Uint16(s, off + 2)>>

\* four-character box type tags as they appear in the byte stream
Tags == {"enca", "mp4a", "ac-3", "sinf", "esds", "free", "stss"}
TagBytes(t) ==
  CASE t = "enca" -> <<101, 110, 99, 97>>
    [] t = "mp4a" -> <<109, 112, 52, 97>>
    [] t = "ac-3" -> <<97, 99, 45, 51>>
    [] t = "sinf" -> <<115, 105, 110, 102>>
    [] t = "esds" -> <<101, 115, 100, 115>>
    [] t = "free" -> <<102, 114, 101, 101>>
    [] t = "stss" -> <<115, 116, 115, 115>>
TagName(bs) == CHOOSE t \in Tags : TagBytes(t) = bs

boxHeaderSize == 8
nrAudioSampleBytesBeforeChildren == 36
flagsMask == 16777215

-----------------------------------------------------------------------------
(* AudioSampleEntryBox: construction, AddChild, Size, RemoveEncryption.    *)

MaxChildren == 3

\* The child boxes a caller may hand to AddChild.  Two distinct sinf boxes
\* with different frma formats, one whose frma format is again "enca",
\* two esds boxes and one box of another type.
Pool == << [name |-> "sinf", size |-> 20, DataFormat |-> "mp4a", payload |-> <<>>],
           [name |-> "sinf", size |-> 24, DataFormat |-> "ac-3", payload |-> <<>>],
           [name |-> "sinf", size |-> 20, DataFormat |-> "enca", payload |-> <<>>],
           [name |-> "esds", size |-> 12, DataFormat |-> "",     payload |-> <<>>],
           [name |-> "esds", size |-> 16, DataFormat |-> "",     payload |-> <<>>],
           [name |-> "free", size |-> 8,  DataFormat |-> "",     payload |-> <<>>] >>

Names == {"enca", "mp4a"}

BoxType(p) == heap[p].name
BoxSize(p) == heap[p].size

NewAudioSampleEntryBox(name) ==
  [name |-> name, DataReferenceIndex |-> 1, ChannelCount |-> 0,
   SampleSize |-> 0, SampleRate |-> 0, Esds |-> Nil, Sinf |-> Nil,
   Children |-> <<>>]

\* the box after a.AddChild(child); childType is child.Type()
AddChild(box, child, childType) ==
  [box EXCEPT !.Esds = IF childType = "esds" THEN child ELSE @,
              !.Sinf = IF childType = "sinf" THEN child ELSE @,
              !.Children = Append(@, child)]

CreateAudioSampleEntryBox(name, nrChannels, sampleSize, sampleRate, child, childType) ==
  LET box == [name |-> name, DataReferenceIndex |-> 1,
              ChannelCount |-> nrChannels, SampleSize |-> sampleSize,
              SampleRate |-> sampleRate, Esds |-> Nil, Sinf |-> Nil,
              Children |-> <<>>]
  IN IF child # Nil THEN AddChild(box, child, childType) ELSE box

\* AudioSampleEntryBox.Size over the children's sizes
Size(box, sizeOf) ==
  nrAudioSampleBytesBeforeChildren
  + SumSeq([k \in DOMAIN box.Children |-> sizeOf[box.Children[k]]])

HeapSizes == [p \in DOMAIN heap |-> heap[p].size]

RemoveAt(s, k) == SubSeq(s, 1, k - 1) \o SubSeq(s, k + 1, Len(s))

\* index of the first child whose Type() is "sinf", 0 when there is none
FirstSinf(box) ==
  LET hits == {k \in DOMAIN box.Children : BoxType(box.Children[k]) = "sinf"}
  IN IF hits = {} THEN 0 ELSE CHOOSE k \in hits : \A m \in hits : k <= m

\* RemoveEncryption: [box |-> the box afterwards, ret |-> returned *SinfBox,
\*                    err |-> "" or the error]
RemoveEncryptionKeepRef(box) ==
  IF box.name # "enca" THEN [box |-> box, ret |-> Nil, err |-> "is not encrypted"]
  ELSE IF box.Sinf = Nil
    THEN [box |-> box, ret |-> Nil, err |-> "does not have sinf box"]
  ELSE LET k == FirstSinf(box)
           cut == IF k = 0 THEN box
                  ELSE [box EXCEPT !.Children = RemoveAt(@, k)]
       IN [box |-> [cut EXCEPT !.name = heap[box.Sinf].DataFormat],
           ret |-> box.Sinf, err |-> ""]

RemoveEncryptionNoGuard(box) ==
  IF box.Sinf = Nil
    THEN [box |-> box, ret |-> Nil, err |-> "does not have sinf box"]
  ELSE LET k == FirstSinf(box)
           cut == IF k = 0 THEN box
                  ELSE [box EXCEPT !.Children = RemoveAt(@, k), !.Sinf = Nil]
       IN [box |-> [cut EXCEPT !.name = heap[box.Sinf].DataFormat],
           ret |-> box.Sinf, err |-> ""]

RemoveEncryption(box) ==
  IF box.name # "enca" THEN [box |-> box, ret |-> Nil, err |-> "is not encrypted"]
  ELSE IF box.Sinf = Nil
    THEN [box |-> box, ret |-> Nil, err |-> "does not have sinf box"]
  ELSE LET k == FirstSinf(box)
           cut == IF k = 0 THEN box
                  ELSE [box EXCEPT !.Children = RemoveAt(@, k), !.Sinf = Nil]
       IN [box |-> [cut EXCEPT !.name = heap[box.Sinf].DataFormat],
           ret |-> box.Sinf, err |-> ""]

NoCall == [op |-> "new", arg |-> Nil, box |-> Nil, err |-> ""]

\* values of the variables a specification does not use
IdleAudio == /\ heap = <<>>
             /\ a = NewAudioSampleEntryBox("mp4a")
             /\ pre = NewAudioSampleEntryBox("mp4a")
             /\ call = NoCall
IdleCodec == /\ hdr = [name |-> "", size |-> 0]
             /\ startPos = 0 /\ kids = <<>>
             /\ stream = <<>> /\ data = <<>> /\ rest = <<>>
             /\ pos = 0 /\ dpc = "idle" /\ derr = "" /\ out = <<>>
EmptyStss == [Version |-> 0, Flags |-> 0, SampleNumber |-> <<>>]
IdleStss  == /\ b = EmptyStss /\ b0 = EmptyStss
             /\ sampleNr = 0 /\ i = 0 /\ j = 0
             /\ spc = "idle" /\ isSync = FALSE /\ iters = 0
IdleAnnex == /\ units = <<>> /\ si = 0 /\ currNaluStart = -1 /\ nalus = <<>>

InitAudio ==
  /\ heap = Pool
  /\ \E name \in Names :
       \/ a = NewAudioSampleEntryBox(name)
       \/ \E child \in {Nil} \cup DOMAIN Pool :
            a = CreateAudioSampleEntryBox(name, 2, 16, 48000, child,
                  IF child = Nil THEN "" ELSE Pool[child].name)
  /\ pre = a
  /\ call = NoCall
  /\ IdleCodec /\ IdleStss /\ IdleAnnex

\* a.AddChild(child) for any box of the pool, also one already added
DoAddChild ==
  /\ Len(a.Children) < MaxChildren
  /\ \E child \in DOMAIN heap :
       /\ a' = AddChild(a, child, BoxType(child))
       /\ call' = [op |-> "AddChild", arg |-> child, box |-> Nil, err |-> ""]
  /\ pre' = a
  /\ UNCHANGED <<heap, codecVars, stssVars, annexVars>>

\* a.RemoveEncryption()
DoRemoveEncryption ==
  /\ LET r == RemoveEncryption(a)
     IN /\ a' = r.box
        /\ call' = [op |-> "RemoveEncryption", arg |-> Nil,
                    box |-> r.ret, err |-> r.err]
  /\ pre' = a
  /\ UNCHANGED <<heap, codecVars, stssVars, annexVars>>

NextAudio == DoAddChild \/ DoRemoveEncryption

SpecAudio == InitAudio /\ [][NextAudio]_vars

----------------------------------------------------------------------------
Removed == call.op = "RemoveEncryption"
Succeeded == Removed /\ call.err = ""
Failed == Removed /\ call.err # ""
SinfChildren(box) == {k \in DOMAIN box.Children : BoxType(box.Children[k]) = "sinf"}

(* C2: every non-nil typed reference (Esds, Sinf) is, by identity, an      *)
(* element of Children; and a step that takes a box out of Children leaves *)
(* no typed reference pointing at a box that is no longer in Children.     *)
C2_TypedRefsAliasChildren ==
  /\ a.Esds # Nil => a.Esds \in Range(a.Children)
  /\ a.Sinf # Nil => a.Sinf \in Range(a.Children)
  /\ Removed /\ Len(a.Children) < Len(pre.Children) =>
       \A p \in Range(pre.Children) \ Range(a.Children) :
          a.Sinf # p /\ a.Esds # p

C2_Witness ==
  /\ Succeeded
  /\ Len(a.Children) < Len(pre.Children)
  /\ pre.Sinf # Nil /\ pre.Sinf \notin Range(a.Children)
  /\ a.Esds # Nil

(* C3: after a successful RemoveEncryption the tag equals the DataFormat   *)
(* of the removed sinf box and Children holds no box of type "sinf".       *)
C3_TagAndNoSinfAfterRemove ==
  Succeeded =>
    /\ SinfChildren(a) = {}
    /\ \E k \in DOMAIN pre.Children :
         /\ a.Children = RemoveAt(pre.Children, k)
         /\ BoxType(pre.Children[k]) = "sinf"
         /\ a.name = heap[pre.Children[k]].DataFormat

(* C4: RemoveEncryption returns an error and no box whenever the tag is    *)
(* not "enca" or there is no sinf child, and a failing call leaves the box *)
(* unchanged.                                                              *)
C4_FailsAndLeavesBoxUnchanged ==
  Removed =>
    /\ (pre.name # "enca" \/ SinfChildren(pre) = {}) => Failed
    /\ Failed => call.box = Nil /\ a = pre

C4_Witness ==
  \/ Failed /\ pre.name # "enca" /\ SinfChildren(pre) # {} /\ pre.Esds # Nil
  \/ Failed /\ pre.name = "enca" /\ SinfChildren(pre) = {} /\ Len(pre.Children) > 0

(* C9: a successful RemoveEncryption returns the very child it removed,    *)
(* removes exactly one child, keeps the others in order, and lowers Size() *)
(* by the returned box's size.                                             *)
C9_ReturnsRemovedChild ==
  Succeeded =>
    \E k \in DOMAIN pre.Children :
       /\ pre.Children[k] = call.box
       /\ a.Children = RemoveAt(pre.Children, k)
       /\ Size(a, HeapSizes) = Size(pre, HeapSizes) - BoxSize(call.box)

----------------------------------------------------------------------------
(* StssBox.IsSyncSample: the binary search, one loop iteration per step.   *)

MaxEntries == 4
MaxSample == 3

RECURSIVE SeqsUpTo(_, _)
SeqsUpTo(S, n) ==
  IF n = 0 THEN {<<>>}
  ELSE LET shorter == SeqsUpTo(S, n - 1)
       IN shorter \cup {Append(q, x) : q \in {r \in shorter : Len(r) = n - 1}, x \in S}

\* SampleNumber[h] for a 0-based h; "oob" is Go's index-out-of-range panic
InRange(S, h) == 0 <= h /\ h < Len(S)

\* one iteration of the loop body at lines 64-70
SearchStepLowerOnly(S, n, lo, hi) ==
  LET h == (lo + hi) \div 2
  IN IF ~InRange(S, h) THEN [i |-> lo, j |-> hi, panic |-> TRUE]
     ELSE IF S[h + 1] < n THEN [i |-> h + 1, j |-> hi, panic |-> FALSE]
     ELSE [i |-> lo, j |-> h - 1, panic |-> FALSE]

SearchStep(S, n, lo, hi) ==
  LET h == (lo + hi) \div 2
  IN IF ~InRange(S, h) THEN [i |-> lo, j |-> hi, panic |-> TRUE]
     ELSE IF S[h + 1] < n THEN [i |-> h + 1, j |-> hi, panic |-> FALSE]
     ELSE [i |-> lo, j |-> h, panic |-> FALSE]

\* the return expression at line 72
SearchResultNoCompare(S, n, lo) ==
  [isSync |-> lo < Len(S), panic |-> FALSE]

SearchResult(S, n, lo) ==
  IF lo < Len(S) /\ ~InRange(S, lo) THEN [isSync |-> FALSE, panic |-> TRUE]
  ELSE [isSync |-> lo < Len(S) /\ S[lo + 1] = n, panic |-> FALSE]

InitStss ==
  /\ \E S \in SeqsUpTo(0 .. MaxSample, MaxEntries), vf \in {<<0, 0>>, <<1, 1>>} :
       b = [Version |-> vf[1], Flags |-> vf[2], SampleNumber |-> S]
  /\ b0 = b
  /\ sampleNr = 0 /\ i = 0 /\ j = 0
  /\ spc = "idle" /\ isSync = FALSE /\ iters = 0
  /\ IdleAudio /\ IdleCodec /\ IdleAnnex

\* b.IsSyncSample(sampleNr) is called: lines 61-62
IsSyncCall ==
  /\ spc \in {"idle", "done"}
  /\ \E n \in 0 .. MaxSample :
       sampleNr' = n
  /\ b0' = b
  /\ i' = 0
  /\ j' = Len(b.SampleNumber)
  /\ iters' = 0
  /\ spc' = "loop"
  /\ UNCHANGED <<b, isSync, audioVars, codecVars, annexVars>>

IsSyncLoop ==
  /\ spc = "loop"
  /\ i < j
  /\ LET r == SearchStep(b.SampleNumber, sampleNr, i, j)
     IN /\ i' = r.i
        /\ j' = r.j
        /\ spc' = IF r.panic THEN "panic" ELSE "loop"
  /\ iters' = iters + 1
  /\ UNCHANGED <<b, b0, sampleNr, isSync, audioVars, codecVars, annexVars>>

IsSyncReturn ==
  /\ spc = "loop"
  /\ ~(i < j)
  /\ LET r == SearchResult(b.SampleNumber, sampleNr, i)
     IN /\ isSync' = r.isSync
        /\ spc' = IF r.panic THEN "panic" ELSE "done"
  /\ UNCHANGED <<b, b0, sampleNr, i, j, iters, audioVars, codecVars, annexVars>>

NextStss == IsSyncCall \/ IsSyncLoop \/ IsSyncReturn

SpecStss == InitStss /\ [][NextStss]_vars

StrictlyAscending(S) == \A k \in 1 .. Len(S) - 1 : S[k] < S[k + 1]

\* the loop makes progress: every iteration shrinks the interval [i, j)
SearchProgress ==
  /\ spc # "panic"
  /\ spc = "loop" =>
       /\ 0 <= i /\ i <= j /\ j <= Len(b.SampleNumber)
       /\ iters + (j - i) <= Len(b.SampleNumber)

(* C1: on a strictly ascending SampleNumber, IsSyncSample(n) is true iff n *)
(* is an element (so always false on the empty sequence); the loop         *)
(* terminates and never indexes outside 0..len-1.                          *)
C1_SyncIffMember ==
  StrictlyAscending(b.SampleNumber) =>
    /\ SearchProgress
    /\ spc = "done" => (isSync <=> sampleNr \in Range(b.SampleNumber))

C1_Witness ==
  /\ spc = "done" /\ isSync /\ iters >= 2
  /\ StrictlyAscending(b.SampleNumber) /\ Len(b.SampleNumber) >= 3

(* C10: on any SampleNumber, sorted or not, IsSyncSample(n) terminates,    *)
(* reads only indices inside the sequence, leaves the box unchanged and    *)
(* returns true only if n is an element.                                   *)
C10_UnsortedIsSafe ==
  /\ SearchProgress
  /\ spc \in {"loop", "done"} => b = b0
  /\ spc = "done" /\ isSync => sampleNr \in Range(b.SampleNumber)

\* an unsorted sequence that holds n, for which the search answers false
C10_Witness ==
  /\ spc = "done" /\ ~isSync
  /\ ~StrictlyAscending(b.SampleNumber)
  /\ sampleNr \in Range(b.SampleNumber)

----------------------------------------------------------------------------
(* Decoding and encoding: DecodeStss / StssBox.Encode and                  *)
(* DecodeAudioSampleEntry / AudioSampleEntryBox.Encode.                    *)

MaxCount == 2
MaxExtra == 2
MaxKids == 2

\* readBoxBody(r, hdr): the hdr.size - 8 bytes behind the header, or a
\* truncation error when the reader holds fewer
readBoxBody(r, h) ==
  LET bodyLen == h.size - boxHeaderSize
  IN IF Len(r) < bodyLen THEN [data |-> <<>>, err |-> "unexpected EOF"]
     ELSE [data |-> Take(r, bodyLen), err |-> ""]

\* EncodeHeader / EncodeHeaderSW: 4-byte size, 4-byte type
EncodeHeader(size, name) == PutUint32(W(size)) \o TagBytes(name)

\* DecodeStss on the body readBoxBody returned (lines 27-38): a slice
\* expression past the end of data panics
DecodeStssBody(d) ==
  IF Len(d) < 4 \/ Len(d) < 8 THEN [box |-> EmptyStss, res |-> "panic"]
  ELSE LET versionAndFlags == Uint32(d, 0)
           ec == Uint32(d, 4)
       IN IF ec[1] > 0 \/ \E k \in 0 .. ec[2] - 1 : Len(d) < 12 + 4 * k
            THEN [box |-> EmptyStss, res |-> "panic"]
          ELSE [box |-> [Version |-> versionAndFlags[1] \div 256,
                         Flags |-> (versionAndFlags[1] % 256) * 65536
                                   + versionAndFlags[2],
                         SampleNumber |-> [k \in 1 .. ec[2] |-> Uint32(d, 8 + 4 * (k - 1))]],
                res |-> "ok"]

StssSize(box) == boxHeaderSize + 8 + Len(box.SampleNumber) * 4

\* StssBox.EncodeSW (lines 87-99)
EncodeStssNoFlags(box) ==
  EncodeHeader(StssSize(box), "stss")
  \o PutUint32(<<(box.Version * 256) % 65536, 0>>)
  \o PutUint32(W(Len(box.SampleNumber)))
  \o Concat([k \in DOMAIN box.SampleNumber |-> PutUint32(box.SampleNumber[k])])

EncodeStss(box) ==
  EncodeHeader(StssSize(box), "stss")
  \o PutUint32(<<(box.Version * 256 + box.Flags \div 65536) % 65536,
                 box.Flags % 65536>>)
  \o PutUint32(W(Len(box.SampleNumber)))
  \o Concat([k \in DOMAIN box.SampleNumber |-> PutUint32(box.SampleNumber[k])])

makeFixed32Uint(nr) == <<nr, 0>>
makeUint16FromFixed32(w) == w[1]

\* DecodeBox(pos, r) for a child whose decoder keeps its bytes:
\* io.EOF at a clean boundary, an error for a partial header or body
DecodeBox(r) ==
  IF Len(r) = 0 THEN [res |-> "EOF", box |-> <<>>, size |-> 0]
  ELSE IF Len(r) < boxHeaderSize THEN [res |-> "error", box |-> <<>>, size |-> 0]
  ELSE LET size == Uint32(r, 0)[2]
       IN IF Uint32(r, 0)[1] > 0 \/ size < boxHeaderSize \/ Len(r) < size
            THEN [res |-> "error", box |-> <<>>, size |-> 0]
          ELSE [res |-> "ok", size |-> size,
                box |-> [name |-> TagName(SubSeq(r, 5, 8)), size |-> size,
                         DataFormat |-> "",
                         payload |-> SubSeq(r, boxHeaderSize + 1, size)]]

\* the fixed fields of DecodeAudioSampleEntry (lines 72-86)
DecodeAudioFields(name, d) ==
  [NewAudioSampleEntryBox(name) EXCEPT
     !.DataReferenceIndex = Uint16(d, 6),
     !.ChannelCount = Uint16(d, 16),
     !.SampleSize = Uint16(d, 18),
     !.SampleRate = makeUint16FromFixed32(Uint32(d, 24))]

\* one iteration of the child loop (lines 92-108) on the bytes r left in
\* restReader: [res, box (the entry so far), heap, rest, pos]
AudioChildStepErrorEndsLoop(box, hp, r, p, end) ==
  LET d == DecodeBox(r)
  IN IF d.res # "ok"
       THEN [res |-> "break", err |-> "", box |-> box, heap |-> hp, rest |-> r, pos |-> p]
     ELSE LET hp2 == Append(hp, d.box)
              box2 == AddChild(box, Len(hp2), d.box.name)
              p2 == p + d.box.size
          IN [res |-> IF p2 >= end THEN "break" ELSE "continue",
              err |-> "", box |-> box2, heap |-> hp2,
              rest |-> Drop(r, d.size), pos |-> p2]

AudioChildStep(box, hp, r, p, end) ==
  LET d == DecodeBox(r)
  IN IF d.res = "EOF"
       THEN [res |-> "break", err |-> "", box |-> box, heap |-> hp, rest |-> r, pos |-> p]
     ELSE IF d.res = "error"
       THEN [res |-> "error", err |-> "decode child", box |-> box, heap |-> hp,
             rest |-> r, pos |-> p]
     ELSE LET hp2 == Append(hp, d.box)
              box2 == AddChild(box, Len(hp2), d.box.name)
              p2 == p + d.box.size
          IN [res |-> IF p2 = end THEN "break"
                      ELSE IF p2 > end THEN "error" ELSE "continue",
              err |-> IF p2 > end THEN "Bad size when decoding" ELSE "",
              box |-> box2, heap |-> hp2, rest |-> Drop(r, d.size), pos |-> p2]

\* child.Encode for a child whose decoder keeps its bytes
EncodeChild(c) == EncodeHeader(c.size, c.name) \o c.payload

\* AudioSampleEntryBox.Encode (lines 127-155)
EncodeAudio(box, hp) ==
  EncodeHeader(Size(box, [p \in DOMAIN hp |-> hp[p].size]), box.name)
  \o Zeros(6) \o PutUint16(box.DataReferenceIndex)
  \o Zeros(8) \o PutUint16(box.ChannelCount) \o PutUint16(box.SampleSize)
  \o Zeros(4) \o PutUint32(makeFixed32Uint(box.SampleRate))
  \o Concat([k \in DOMAIN box.Children |-> EncodeChild(hp[box.Children[k]])])

\* the children an input may carry: [name, payload]
KidKinds == { [name |-> "free", payload |-> <<>>],
              [name |-> "esds", payload |-> <<5, 6>>] }
KidBytes(k) == EncodeHeader(boxHeaderSize + Len(k.payload), k.name) \o k.payload

\* the body of an audio sample entry as some encoder wrote it: dirty names
\* the reserved area (0: none) that holds a non-zero byte
AudioBody(dirty, dri, rate32, ks) ==
  (IF dirty = 1 THEN <<0, 0, 7, 0, 0, 0>> ELSE Zeros(6))
  \o PutUint16(dri)
  \o (IF dirty = 2 THEN <<0, 1, 0, 0, 0, 0, 0, 0>> ELSE Zeros(8))
  \o PutUint16(2) \o PutUint16(16)
  \o (IF dirty = 3 THEN <<0, 0, 0, 9>> ELSE Zeros(4))
  \o PutUint32(rate32)
  \o Concat([k \in DOMAIN ks |-> KidBytes(ks[k])])

StssBody(v, f, c, es, extra) ==
  PutUint32(<<v * 256 + f \div 65536, f % 65536>>) \o PutUint32(c)
  \o Concat([k \in DOMAIN es |-> PutUint32(es[k])])
  \o Fill(extra, 7)

InitCodecAudio ==
  \E name \in Names, dirty \in 0 .. 3, dri \in {1, 258},
     rate32 \in {<<48000, 0>>, <<44100, 32768>>},
     ks \in SeqsUpTo(KidKinds, MaxKids), sp \in {0, 100} :
    LET body == AudioBody(dirty, dri, rate32, ks)
    IN \E size \in nrAudioSampleBytesBeforeChildren .. boxHeaderSize + Len(body) + 1 :
         /\ hdr = [name |-> name, size |-> size]
         /\ stream = body
         /\ kids = [k \in DOMAIN ks |-> boxHeaderSize + Len(ks[k].payload)]
         /\ startPos = sp

InitCodecStss ==
  \E v \in {0, 1}, f \in {0, 66051}, c \in 0 .. MaxCount, extra \in 0 .. MaxExtra,
     huge \in {0, 32768} :
    \E es \in {q \in SeqsUpTo({<<0, 1>>, <<65535, 65535>>}, MaxCount) : Len(q) = c} :
      LET body == StssBody(v, f, <<huge, c>>, es, extra)
      IN \E len \in 0 .. Len(body), missing \in {0, 1} :
           /\ hdr = [name |-> "stss", size |-> boxHeaderSize + len]
           /\ stream = Take(body, len - missing)
           /\ kids = <<>>
           /\ startPos = 0

InitCodec ==
  /\ InitCodecAudio \/ InitCodecStss
  /\ data = <<>> /\ rest = <<>> /\ pos = 0
  /\ dpc = "start" /\ derr = "" /\ out = <<>>
  /\ heap = <<>>
  /\ a = NewAudioSampleEntryBox("mp4a") /\ pre = a /\ call = NoCall
  /\ IdleStss /\ IdleAnnex

\* DecodeStss(hdr, startPos, r), the whole function
DecodeStss ==
  /\ dpc = "start" /\ hdr.name = "stss"
  /\ LET rb == readBoxBody(stream, hdr)
         d == DecodeStssBody(rb.data)
     IN /\ data' = rb.data
        /\ IF rb.err # ""
             THEN dpc' = "failed" /\ derr' = rb.err /\ b' = b
             ELSE IF d.res = "panic"
               THEN dpc' = "panic" /\ derr' = "" /\ b' = b
               ELSE dpc' = "decoded" /\ derr' = "" /\ b' = d.box
  /\ UNCHANGED <<hdr, startPos, kids, stream, rest, pos, out, audioVars,
                 b0, sampleNr, i, j, spc, isSync, iters, annexVars>>

\* b.Encode(w) of the decoded StssBox
EncodeStssBox ==
  /\ dpc = "decoded" /\ hdr.name = "stss"
  /\ out' = EncodeStss(b)
  /\ dpc' = "encoded"
  /\ UNCHANGED <<hdr, startPos, kids, stream, data, rest, pos, derr, audioVars,
                 stssVars, annexVars>>

\* DecodeAudioSampleEntry up to the child loop (lines 68-91)
DecodeAudioBegin ==
  /\ dpc = "start" /\ hdr.name # "stss"
  /\ LET rb == readBoxBody(stream, hdr)
     IN /\ data' = rb.data
        /\ IF rb.err # ""
             THEN /\ dpc' = "failed" /\ derr' = rb.err
                  /\ UNCHANGED <<a, rest, pos>>
             ELSE /\ a' = DecodeAudioFields(hdr.name, rb.data)
                  /\ rest' = Drop(rb.data, nrAudioSampleBytesBeforeChildren - boxHeaderSize)
                  /\ pos' = startPos + nrAudioSampleBytesBeforeChildren
                  /\ dpc' = "children" /\ derr' = ""
  /\ UNCHANGED <<hdr, startPos, kids, stream, out, heap, pre, call,
                 stssVars, annexVars>>

\* one iteration of the child loop (lines 92-108)
DecodeAudioChild ==
  /\ dpc = "children"
  /\ LET r == AudioChildStep(a, heap, rest, pos, startPos + hdr.size)
     IN /\ a' = r.box /\ heap' = r.heap /\ rest' = r.rest /\ pos' = r.pos
        /\ derr' = r.err
        /\ dpc' = CASE r.res = "break" -> "decoded"
                    [] r.res = "error" -> "failed"
                    [] OTHER -> "children"
  /\ UNCHANGED <<hdr, startPos, kids, stream, data, out, pre, call,
                 stssVars, annexVars>>

\* a.Encode(w) of the decoded AudioSampleEntryBox
EncodeAudioBox ==
  /\ dpc = "decoded" /\ hdr.name # "stss"
  /\ out' = EncodeAudio(a, heap)
  /\ dpc' = "encoded"
  /\ UNCHANGED <<hdr, startPos, kids, stream, data, rest, pos, derr, audioVars,
                 stssVars, annexVars>>

NextCodec ==
  \/ DecodeStss \/ EncodeStssBox
  \/ DecodeAudioBegin \/ DecodeAudioChild \/ EncodeAudioBox

SpecCodec == InitCodec /\ [][NextCodec]_vars

----------------------------------------------------------------------------
AudioRun == hdr.name # "stss"
StssRun == hdr.name = "stss"

\* the byte string the decoder was handed: the header and the body it read
Original == EncodeHeader(hdr.size, hdr.name) \o data

ZeroAt(s, P) == [k \in DOMAIN s |-> IF k \in P THEN 0 ELSE s[k]]

\* 1-based positions in the box: the low 16 bits of the sample rate, and the
\* reserved / pre-defined bytes of the sample entry
RateLowBytes == {35, 36}
ReservedBytes == (9 .. 14) \cup (17 .. 24) \cup (29 .. 32)

\* 36 + the sizes of the first m children of the input
EndOfKid(m) == nrAudioSampleBytesBeforeChildren + SumSeq(Take(kids, m))
Shrunk == AudioRun /\ hdr.size < EndOfKid(Len(kids))
OnBoundary == \E m \in 0 .. Len(kids) : EndOfKid(m) = hdr.size

C6_RoundTripExact ==
  dpc = "encoded" =>
    IF StssRun
      THEN Len(out) = StssSize(b) /\ out = Original
      ELSE /\ Len(out) = Size(a, HeapSizes)
           /\ ZeroAt(out, RateLowBytes) = ZeroAt(Original, RateLowBytes)

(* C6 amended: Encode writes Size() bytes, and they are the original bytes *)
(* except that the audio entry's reserved bytes and the low 16 bits of its *)
(* sample rate are written as zero, and that an stss box is cut to its     *)
(* 16 + 4*count declared bytes with the size field rewritten to match.     *)
C6_RoundTripCanonical ==
  dpc = "encoded" =>
    IF StssRun
      THEN LET count == Uint32(Original, 12)
               n == 16 + 4 * count[2]
           IN /\ Len(out) = StssSize(b)
              /\ count[1] = 0 /\ n <= Len(Original)
              /\ out = PutUint32(W(n)) \o SubSeq(Original, 5, n)
      ELSE /\ Len(out) = Size(a, HeapSizes)
           /\ out = ZeroAt(Original, RateLowBytes \cup ReservedBytes)

C6_Witness ==
  /\ dpc = "encoded" /\ AudioRun
  /\ Len(a.Children) = 2 /\ a.Esds # Nil
  /\ out # Original
  /\ Original[35] # 0

(* C8: DecodeStss on a body shorter than its declared fields (under 8      *)
(* bytes, or under 8 + 4*count) returns a truncation error: it neither     *)
(* crashes nor returns a box.                                              *)
C8_ShortStssBodyIsAnError ==
  /\ StssRun /\ dpc # "start"
  /\ Len(data) < 8 \/ Uint32(data, 4)[1] > 0 \/ Len(data) < 8 + 4 * Uint32(data, 4)[2]
  => dpc = "failed" /\ derr # ""

----------------------------------------------------------------------------
(* Annex-B: ExtractNalusFromByteStream and ConvertByteStreamToNaluSample.  *)
(* stream is the input buffer, nalus the units found, out the output.      *)

MaxUnits == 2

\* NAL units as an encoder emits them: no 00 00 inside, no trailing 00
UnitPool == { <<2>>, <<7>>, <<2, 3>>, <<0, 2>>, <<1>>, <<1, 0, 2>> }

StartCode(width) == IF width = 3 THEN <<0, 0, 1>> ELSE <<0, 0, 0, 1>>

\* the inputs and wanted units of TestNaluExtraction and
\* TestByteStreamToNaluSampleConversion
TestVectors ==
  { [input |-> <<0, 0, 0, 1, 2>>, wanted |-> << <<2>> >>],
    [input |-> <<0, 0, 1, 2>>, wanted |-> << <<2>> >>],
    [input |-> <<0, 0, 2>>, wanted |-> <<>>],
    [input |-> <<0, 0, 1>>, wanted |-> <<>>],
    [input |-> <<0, 0, 1, 2, 0, 0, 0, 1, 1>>, wanted |-> << <<2>>, <<1>> >>],
    [input |-> <<0, 0, 0, 1, 2, 3>>, wanted |-> << <<2, 3>> >>],
    [input |-> <<0, 0, 1, 2, 3>>, wanted |-> << <<2, 3>> >>],
    [input |-> <<0, 0, 0, 1, 2, 3, 0, 0, 0, 1, 7>>, wanted |-> << <<2, 3>>, <<7>> >>],
    [input |-> <<0, 0, 1, 2, 3, 0, 0, 1, 7>>, wanted |-> << <<2, 3>>, <<7>> >>] }

\* data[from:to] of Go, 0-based and end-exclusive
Slice(d, from, to) == SubSeq(d, from + 1, to)

\* end of the unit before a start code at k: zero bytes before it belong
\* to the start code
RECURSIVE NaluEnd(_, _, _)
NaluEnd(d, start, end) ==
  IF end - 1 > start /\ d[end] = 0 THEN NaluEnd(d, start, end - 1) ELSE end

\* the scanner's loop body at index k: [start, found]
ScanStepKeepZeros(d, k, start, found) ==
  IF d[k + 1] = 0 /\ d[k + 2] = 0 /\ d[k + 3] = 1
    THEN [start |-> k + 3,
          found |-> IF start > 0 THEN Append(found, Slice(d, start, k))
                    ELSE found]
    ELSE [start |-> start, found |-> found]

ScanStep(d, k, start, found) ==
  IF d[k + 1] = 0 /\ d[k + 2] = 0 /\ d[k + 3] = 1
    THEN [start |-> k + 3,
          found |-> IF start > 0
                      THEN Append(found, Slice(d, start, NaluEnd(d, start, k)))
                    ELSE found]
    ELSE [start |-> start, found |-> found]

\* the length-prefixed form of one unit
SampleUnit(u) == PutUint32(W(Len(u))) \o u

InitAnnex ==
  /\ \/ \E us \in SeqsUpTo(UnitPool, MaxUnits) :
          \E widths \in [DOMAIN us -> {3, 4}] :
             /\ units = us
             /\ stream = Concat([k \in DOMAIN us |-> StartCode(widths[k]) \o us[k]])
     \/ \E t \in TestVectors : units = t.wanted /\ stream = t.input
  /\ si = 0 /\ currNaluStart = -1 /\ nalus = <<>>
  /\ dpc = "scan" /\ out = <<>> /\ pos = 0
  /\ hdr = [name |-> "", size |-> 0] /\ startPos = 0 /\ kids = <<>>
  /\ data = <<>> /\ rest = <<>> /\ derr = ""
  /\ IdleAudio /\ IdleStss

\* one iteration of the scanner's loop over the buffer
ExtractScan ==
  /\ dpc = "scan"
  /\ si < Len(stream) - 3
  /\ LET r == ScanStep(stream, si, currNaluStart, nalus)
     IN currNaluStart' = r.start /\ nalus' = r.found
  /\ si' = si + 1
  /\ UNCHANGED <<units, hdr, startPos, kids, stream, data, rest, pos, dpc, derr, out,
                 audioVars, stssVars>>

\* the scanner's end: the last unit runs to the end of the buffer
ExtractEnd ==
  /\ dpc = "scan"
  /\ ~(si < Len(stream) - 3)
  /\ nalus' = IF currNaluStart < 0 THEN <<>>
              ELSE Append(nalus, Slice(stream, currNaluStart, Len(stream)))
  /\ dpc' = "emit"
  /\ UNCHANGED <<units, si, currNaluStart, hdr, startPos, kids, stream, data, rest,
                 pos, derr, out, audioVars, stssVars>>

\* the converter writes the next unit, or returns
ConvertEmit ==
  /\ dpc = "emit"
  /\ IF pos < Len(nalus)
       THEN /\ out' = out \o SampleUnit(nalus[pos + 1])
            /\ pos' = pos + 1
            /\ dpc' = dpc
       ELSE /\ dpc' = "done"
            /\ UNCHANGED <<out, pos>>
  /\ UNCHANGED <<annexVars, hdr, startPos, kids, stream, data, rest, derr,
                 audioVars, stssVars>>

NextAnnex == ExtractScan \/ ExtractEnd \/ ConvertEmit

SpecAnnex == InitAnnex /\ [][NextAnnex]_vars

RECURSIVE Framed(_)
Framed(us) ==
  IF us = <<>> THEN <<>>
  ELSE <<0, 0, Len(Head(us)) \div 256, Len(Head(us)) % 256>> \o Head(us)
       \o Framed(Tail(us))

(* C7: the converter's output is, for each unit the scanner finds and in   *)
(* order, a 4-byte big-endian length and the unit's bytes, nothing else;   *)
(* the units found, and so the output, are those the buffer was framed     *)
(* from whether their start codes are 3 or 4 bytes wide.                   *)
C7_LengthPrefixedUnits ==
  dpc = "done" =>
    /\ out = Framed(nalus)
    /\ nalus = units

\* a 3-byte and a 4-byte start code in one buffer
C7_Witness ==
  /\ dpc = "done" /\ Len(units) = 2 /\ Len(out) > 8
  /\ SubSeq(stream, 1, 3) = <<0, 0, 1>>
  /\ \E k \in 1 .. Len(stream) - 3 : SubSeq(stream, k, k + 3) = <<0, 0, 0, 1>>

====
